---- MODULE Spec2Model ----
(***************************************************************************)
(* Model of the LLM service layer of backend/app:                          *)
(*   - the three provider adapters (llm_openai.py, llm_google.py,          *)
(*     llm_qwen.py) with their retry wrappers, as one sequential call      *)
(*     process (specification Spec / FairSpec);                            *)
(*   - the factory get_llm_service (llm_factory.py) with its process-wide  *)
(*     cache slot, called from several threads (specification SpecFactory, *)
(*     and SpecSeq for a single thread).                                   *)
(***************************************************************************)
EXTENDS Integers, Sequences, FiniteSets, TLC

\* ------------------------------------------------------------------ bounds
MaxN == 2          \* largest max_retries handed to a retry wrapper directly
MaxLen == 3        \* longest vendor text
CallSlack == 2     \* invocations counted beyond MaxN + 1 before the counter saturates

MaxCalls == MaxN + 1 + CallSlack

NThreads == 2      \* threads calling get_llm_service concurrently
MaxOps == 3        \* factory calls and direct constructions started in one run
MaxEnvChanges == 1 \* changes of the environment in one run
MaxClears == 1     \* explicit resets of the cache slot in one run

\* ------------------------------------------------------- program constants
DefaultMaxRetries == 1

Adapters == {"openai", "google", "qwen"}
Operations == {"translate", "analyze_text", "generate_response"}
\* "wrapper" is a direct call of _generate_content_with_retry / _call_qwen_with_retry
Entries == Operations \cup {"wrapper"}

GEMINI_ANALYSIS_PROMPTS == {"summary", "keywords"}
QWEN_ANALYSIS_PROMPTS == {"summary", "keywords"}
OPENAI_ANALYSIS_TYPES == {"summary", "keywords"}

\* analysis_type values a caller may pass ("NA": the operation has no such parameter)
AnalysisTypes == {"summary", "keywords", "sentiment", ""}

\* ------------------------------------------------------------------- texts
Chars == {" ", "a"}
Texts == UNION {[1..n -> Chars] : n \in 0..MaxLen}

IsSpace(c) == c = " "

RECURSIVE LStrip(_)
LStrip(s) == IF s = <<>> THEN s
             ELSE IF IsSpace(Head(s)) THEN LStrip(Tail(s)) ELSE s

RECURSIVE RStrip(_)
RStrip(s) == IF s = <<>> THEN s
             ELSE IF IsSpace(s[Len(s)]) THEN RStrip(SubSeq(s, 1, Len(s) - 1)) ELSE s

\* variant: only leading whitespace is removed
Strip_leading(s) == LStrip(s)

\* str.strip()
Strip(s) == RStrip(LStrip(s))

\* truthiness of a str
Truthy(s) == s # <<>>

\* --------------------------------------------------------- vendor outcomes
\* What one physical vendor invocation can produce, per SDK.
\*   google:  raise | falsy (response is None) | noattr (no 'text' attribute)
\*            | textNone (text is None) | text (text is a str)
\*   qwen:    raise | non200 | nooutput | nochoices | nomessage
\*            | contentNone | content
\*   openai:  apierror | raise | nochoices | nomessage | contentNone | content
Outcome(k, t) == [kind |-> k, text |-> t]
NoOutcome == Outcome("none", <<>>)

GoogleOutcomes ==
    {Outcome(k, <<>>) : k \in {"raise", "falsy", "noattr", "textNone"}}
        \cup {Outcome("text", t) : t \in Texts}

QwenOutcomes ==
    {Outcome(k, <<>>) : k \in {"raise", "non200", "nooutput", "nochoices",
                               "nomessage", "contentNone"}}
        \cup {Outcome("content", t) : t \in Texts}

OpenAIOutcomes ==
    {Outcome(k, <<>>) : k \in {"apierror", "raise", "nochoices", "nomessage",
                               "contentNone"}}
        \cup {Outcome("content", t) : t \in Texts}

\* ------------------------------------------------------------------ errors
\* type: the exception class; reported: the attempt count its message states
\* (0: none); cause: the invocation on which the wrapped failure was seen.
Err(t, n, c) == [type |-> t, reported |-> n, cause |-> c]
NoErr == Err("none", 0, 0)

\* ----------------------------------------------------------------- results
Result(k, t, e) == [kind |-> k, text |-> t, err |-> e]
NoResult == Result("none", <<>>, NoErr)
Returned(t) == Result("string", t, NoErr)
\* the "Error: ... returned no valid ..." string
Sentinel == Result("sentinel", <<>>, NoErr)
\* a wrapper called directly returns the response object
ReturnedResponse == Result("response", <<>>, NoErr)
Raised(e) == Result("raise", <<>>, e)

VARIABLES
    adapter,          \* the adapter the call is made on
    op,               \* the entry point called
    analysis_type,    \* analyze_text's analysis_type
    max_retries,      \* the wrapper's max_retries
    pc,               \* position of the call
    attempts,         \* the wrapper's attempts
    last_exception,   \* the wrapper's last_exception
    response,         \* the response the wrapper returned to the operation
    result,           \* what the call gave its caller
    calls,            \* physical vendor invocations of this call (saturating)
    hist,             \* outcome kind of each invocation of this call
    last,             \* outcome of the latest invocation
    model_preference, \* the caller's model_preference (a direct wrapper call: its model_name)
    model_name,       \* the effective model of this call
    sent_models       \* the models named in the invocations of this call

callVars == <<adapter, op, analysis_type, max_retries, pc, attempts,
              last_exception, response, result, calls, hist, last,
              model_preference, model_name, sent_models>>

VARIABLES
    env,              \* os.environ: LLM_PROVIDER and the three credentials
    slot,             \* _llm_service_instance (0: None, else an instance id)
    heap,             \* the adapter instances constructed so far, by id
    th,               \* per thread: position and locals of its factory call
    ops,              \* factory calls and direct constructions started
    envChanges,       \* changes of the environment so far
    clears            \* explicit resets of the slot so far

factoryVars == <<env, slot, heap, th, ops, envChanges, clears>>

VARIABLES
    req,              \* the arguments of an operation whose request is being built
    built             \* the request built from them: model and messages

reqVars == <<req, built>>

VARIABLES
    client,           \* llm_service.client ("None" or the OpenAI client)
    legacy            \* the call_llm call: arguments, position, outcome

legacyVars == <<client, legacy>>

VARIABLES
    prior             \* how the previous call on this adapter instance ended

VARIABLES
    web               \* the web request being handled: route, position, answer

vars == <<callVars, factoryVars, reqVars, legacyVars, prior, web>>

\* what the steps of one part of the program leave alone
outsideCall == <<factoryVars, reqVars, legacyVars, prior, web>>
outsideFactory == <<callVars, reqVars, legacyVars, prior, web>>
outsideRequest == <<callVars, factoryVars, legacyVars, prior, web>>
outsideLegacy == <<callVars, factoryVars, reqVars, prior, web>>

\* ------------------------------------------------------------ call inputs
\* The operations hand no max_retries to the wrapper, so it runs with its
\* default; only a direct wrapper call chooses one.
CallInputsWith(prefs) ==
    {c \in [adapter : Adapters, op : Entries,
            analysis_type : AnalysisTypes \cup {"NA"},
            max_retries : 0..MaxN,
            model_preference : prefs \cup {"my-model"}] :
        /\ (c.op = "wrapper") => (c.adapter # "openai" /\ c.model_preference = "my-model")
        /\ (c.op # "wrapper") =>
              (c.max_retries = DefaultMaxRetries /\ c.model_preference \in prefs)
        /\ (c.op = "analyze_text") <=> (c.analysis_type # "NA")}

\* callers that state no model preference
CallInputs == CallInputsWith({"None"})

\* callers with and without a model preference
ModelCallInputs == CallInputsWith({"None", "", "my-model"})

StartCall(c) ==
    /\ adapter' = c.adapter
    /\ op' = c.op
    /\ analysis_type' = c.analysis_type
    /\ max_retries' = c.max_retries
    /\ pc' = "start"
    /\ attempts' = 0
    /\ last_exception' = NoErr
    /\ response' = NoOutcome
    /\ result' = NoResult
    /\ calls' = 0
    /\ hist' = <<>>
    /\ last' = NoOutcome
    /\ model_preference' = c.model_preference
    /\ model_name' = "none"
    /\ sent_models' = {}

InitCallFrom(inputs) ==
    \E c \in inputs :
        /\ adapter = c.adapter
        /\ op = c.op
        /\ analysis_type = c.analysis_type
        /\ max_retries = c.max_retries
        /\ pc = "start"
        /\ attempts = 0
        /\ last_exception = NoErr
        /\ response = NoOutcome
        /\ result = NoResult
        /\ calls = 0
        /\ hist = <<>>
        /\ last = NoOutcome
        /\ model_preference = c.model_preference
        /\ model_name = "none"
        /\ sent_models = {}

InitCall == InitCallFrom(CallInputs)

\* ----------------------------------------------------------------- helpers
\* variant: an unknown analysis_type is served like a known one
SupportedAnalysis_all(a) == AnalysisTypes

SupportedAnalysis(a) ==
    IF a = "openai" THEN OPENAI_ANALYSIS_TYPES
    ELSE IF a = "google" THEN GEMINI_ANALYSIS_PROMPTS
    ELSE QWEN_ANALYSIS_PROMPTS

\* what hist keeps of an outcome: its kind, "empty" for an empty text
HistKind(o) ==
    IF o.kind \in {"text", "content"} /\ ~Truthy(o.text) THEN "empty" ELSE o.kind

\* one more physical vendor invocation, with outcome o
Invoke(o) ==
    /\ calls' = IF calls < MaxCalls THEN calls + 1 ELSE calls
    /\ hist' = IF Len(hist) < MaxCalls THEN Append(hist, HistKind(o)) ELSE hist
    /\ last' = o
    /\ sent_models' = sent_models \cup {model_name}

Finish(r) ==
    /\ result' = r
    /\ pc' = "done"

\* while attempts <= max_retries
GoogleLoopCond(a, n) == a <= n
QwenLoopCond(a, n) == a <= n

\* variant: the test is negated
GoogleHasText_negated(o) == o.kind \in {"falsy", "noattr"}

\* if response and hasattr(response, 'text')
GoogleHasText(o) == o.kind \in {"textNone", "text"}

\* if attempts >= max_retries   (last attempt, still no text)
GoogleLastAttempt(a, n) == a >= n

\* variant: gives up one attempt early
GoogleGiveUp_early(a, n) == a >= n

\* if attempts > max_retries
GoogleGiveUp(a, n) == a > n

\* variant: gives up one attempt early
QwenGiveUp_early(a, n) == a >= n

\* if attempts > max_retries
QwenGiveUp(a, n) == a > n

\* response.status_code == 200 and response.output and response.output.choices
QwenOk(o) == o.kind \in {"nomessage", "contentNone", "content"}

\* truthiness of an optional str given as one token (None or empty: falsy)
TruthyOpt(s) == s \notin {"None", ""}

\* variant: the preference is ignored
GetModel_defaultOnly(a, p) ==
    IF a = "openai" THEN "gpt-3.5-turbo"
    ELSE IF a = "google" THEN "gemini-1.5-flash-latest"
    ELSE "qwen-turbo"

\* _get_model / _get_model_name
GetModel(a, p) ==
    IF TruthyOpt(p) THEN p
    ELSE IF a = "openai" THEN "gpt-3.5-turbo"
    ELSE IF a = "google" THEN "gemini-1.5-flash-latest"
    ELSE "qwen-turbo"

\* variant: the counter and the last exception live on from call to call
WrapperEntry_kept(a, e) == [attempts |-> a, last_exception |-> e]

\* attempts = 0; last_exception = None   (a and e: what the names held before)
WrapperEntry(a, e) == [attempts |-> 0, last_exception |-> NoErr]

\* ----------------------------------------------------------------- actions
\* Entry of an operation up to its first vendor call: analyze_text looks the
\* analysis_type up first; the wrapper initialises attempts and last_exception.
Begin ==
    /\ pc = "start"
    /\ IF op = "analyze_text" /\ analysis_type \notin SupportedAnalysis(adapter)
       THEN Finish(Raised(Err("NotImplementedError", 0, 0)))
       ELSE /\ pc' = IF adapter = "openai" THEN "create" ELSE "retry"
            /\ UNCHANGED result
    /\ attempts' = WrapperEntry(attempts, last_exception).attempts
    /\ last_exception' = WrapperEntry(attempts, last_exception).last_exception
    /\ model_name' = IF op = "wrapper" THEN model_preference
                     ELSE GetModel(adapter, model_preference)
    /\ UNCHANGED <<adapter, op, analysis_type, max_retries, response,
                   calls, hist, last, model_preference, sent_models>>

\* except Exception as e of _generate_content_with_retry, e seen on invocation c
GoogleExcept(e, c) ==
    /\ last_exception' = e
    /\ attempts' = attempts + 1
    /\ IF GoogleGiveUp(attempts + 1, max_retries)
       THEN Finish(Raised(Err("ConnectionError", max_retries + 1, c)))
       ELSE /\ pc' = "retry"
            /\ UNCHANGED result

\* One iteration of the loop of _generate_content_with_retry.
GoogleAttempt ==
    /\ pc = "retry"
    /\ adapter = "google"
    /\ IF ~GoogleLoopCond(attempts, max_retries)
       THEN /\ Finish(Raised(Err("ConnectionError", 0, 0)))
            /\ UNCHANGED <<attempts, last_exception, response, calls, hist, last,
                           sent_models>>
       ELSE \E o \in GoogleOutcomes :
            /\ Invoke(o)
            /\ IF o.kind = "raise"
               THEN /\ GoogleExcept(Err("VendorError", 0, calls'), calls')
                    /\ UNCHANGED response
               ELSE IF GoogleHasText(o)
               THEN /\ response' = o
                    /\ pc' = "extract"
                    /\ UNCHANGED <<attempts, last_exception, result>>
               ELSE IF GoogleLastAttempt(attempts, max_retries)
               THEN /\ GoogleExcept(Err("ValueError", attempts + 1, calls'), calls')
                    /\ UNCHANGED response
               ELSE /\ pc' = "retry"
                    /\ UNCHANGED <<attempts, last_exception, response, result>>
    /\ UNCHANGED <<adapter, op, analysis_type, max_retries, model_preference,
                   model_name>>

\* One iteration of the loop of _call_qwen_with_retry.
QwenAttempt ==
    /\ pc = "retry"
    /\ adapter = "qwen"
    /\ IF ~QwenLoopCond(attempts, max_retries)
       THEN /\ Finish(Raised(Err("ConnectionError", 0, 0)))
            /\ UNCHANGED <<attempts, last_exception, response, calls, hist, last,
                           sent_models>>
       ELSE \E o \in QwenOutcomes :
            /\ Invoke(o)
            /\ IF QwenOk(o)
               THEN /\ response' = o
                    /\ pc' = "extract"
                    /\ UNCHANGED <<attempts, last_exception, result>>
               ELSE /\ last_exception' =
                          Err(IF o.kind = "raise" THEN "VendorError" ELSE "ValueError",
                              0, calls')
                    /\ attempts' = attempts + 1
                    /\ IF QwenGiveUp(attempts + 1, max_retries)
                       THEN Finish(Raised(Err("ConnectionError", max_retries + 1, calls')))
                       ELSE /\ pc' = "retry"
                            /\ UNCHANGED result
                    /\ UNCHANGED response
    /\ UNCHANGED <<adapter, op, analysis_type, max_retries, model_preference,
                   model_name>>

\* What an operation does with the response its wrapper returned.
GoogleExtract(r) ==
    IF r.kind = "text" /\ Truthy(r.text) THEN Returned(Strip(r.text)) ELSE Sentinel

QwenExtract(r) ==
    IF r.kind = "nomessage" THEN Raised(Err("AttributeError", 0, 0))
    ELSE IF r.kind = "content" /\ Truthy(r.text) THEN Returned(Strip(r.text))
    ELSE Sentinel

\* The wrapper has returned: the operation extracts the text (a direct wrapper
\* call hands the response back).
Extract ==
    /\ pc = "extract"
    /\ Finish(IF op = "wrapper" THEN ReturnedResponse
              ELSE IF adapter = "google" THEN GoogleExtract(response)
              ELSE QwenExtract(response))
    /\ UNCHANGED <<adapter, op, analysis_type, max_retries, attempts,
                   last_exception, response, calls, hist, last,
                   model_preference, model_name, sent_models>>

\* variant: the APIError is logged and a string is returned
OpenAIResult_swallow(o, c) ==
    IF o.kind = "apierror" THEN Sentinel
    ELSE IF o.kind = "raise" THEN Raised(Err("VendorError", 0, c))
    ELSE IF o.kind = "content" /\ Truthy(o.text) THEN Returned(Strip(o.text))
    ELSE Sentinel

\* variant: the APIError is re-raised as it is
OpenAIResult_reraise(o, c) ==
    IF o.kind \in {"apierror", "raise"} THEN Raised(Err("VendorError", 0, c))
    ELSE IF o.kind = "content" /\ Truthy(o.text) THEN Returned(Strip(o.text))
    ELSE Sentinel

\* The body of an OpenAI operation after the request is built.
OpenAIResult(o, c) ==
    IF o.kind = "apierror" THEN Raised(Err("Exception", 0, c))
    ELSE IF o.kind = "raise" THEN Raised(Err("VendorError", 0, c))
    ELSE IF o.kind = "content" /\ Truthy(o.text) THEN Returned(Strip(o.text))
    ELSE Sentinel

OpenAICreate ==
    /\ pc = "create"
    /\ adapter = "openai"
    /\ \E o \in OpenAIOutcomes :
        /\ Invoke(o)
        /\ Finish(OpenAIResult(o, calls'))
    /\ UNCHANGED <<adapter, op, analysis_type, max_retries, attempts,
                   last_exception, response, model_preference, model_name>>

\* The caller makes its next call.
NewCall ==
    /\ pc = "done"
    /\ \E c \in CallInputs : StartCall(c)

\* The caller makes its next call on the same adapter instance; the frame of
\* the previous call is dead, and what its names held is still in memory
\* until the new call assigns them.
NextCall ==
    /\ pc = "done"
    /\ \E c \in CallInputs :
        /\ c.adapter = adapter
        /\ op' = c.op
        /\ analysis_type' = c.analysis_type
        /\ max_retries' = c.max_retries
        /\ model_preference' = c.model_preference
    /\ pc' = "start"
    /\ response' = NoOutcome
    /\ result' = NoResult
    /\ calls' = 0
    /\ hist' = <<>>
    /\ last' = NoOutcome
    /\ model_name' = "none"
    /\ sent_models' = {}
    /\ prior' = IF result.kind = "raise" THEN "raised" ELSE "returned"
    /\ UNCHANGED <<adapter, attempts, last_exception>>

\* The caller makes its next call, with or without a model preference.
NewCallWithModel ==
    /\ pc = "done"
    /\ \E c \in ModelCallInputs : StartCall(c)

CallStep == Begin \/ GoogleAttempt \/ QwenAttempt \/ Extract \/ OpenAICreate

\* ================================================================= factory
Threads == 1..NThreads

\* values of the environment variables ("UNSET": the variable is absent)
ProviderValues == {"UNSET", "openai", "OpenAI", "google", "qwen", "azure"}
EnvNames == {"LLM_PROVIDER", "OPENAI_API_KEY", "GOOGLE_API_KEY", "QWEN_API_KEY"}
EnvValues(name) ==
    IF name = "LLM_PROVIDER" THEN ProviderValues
    ELSE IF name = "OPENAI_API_KEY" THEN {"UNSET", "", "sk-o"}
    ELSE IF name = "GOOGLE_API_KEY" THEN {"UNSET", "", "sk-g"}
    ELSE {"UNSET", "", "sk-q"}

\* api_key arguments of a direct construction (None, empty, a key)
KeyValues == {"UNSET", "", "sk"}

Envs == [LLM_PROVIDER : EnvValues("LLM_PROVIDER"),
         OPENAI_API_KEY : EnvValues("OPENAI_API_KEY"),
         GOOGLE_API_KEY : EnvValues("GOOGLE_API_KEY"),
         QWEN_API_KEY : EnvValues("QWEN_API_KEY")]

\* variant: the name is compared as it is written
Lower_asWritten(s) == s

\* str.lower() on the provider names above
Lower(s) == IF s = "OpenAI" THEN "openai" ELSE s

\* variant: the provider setting is read once, when the module is loaded
\* with LLM_PROVIDER unset
ReadProvider_stale(e) == "openai"

\* os.environ.get("LLM_PROVIDER", "openai").lower()
ReadProvider(e) ==
    Lower(IF e.LLM_PROVIDER = "UNSET" THEN "openai" ELSE e.LLM_PROVIDER)

\* the if/elif chain of get_llm_service: the class chosen for a provider
\* name and the credential variable read for it ("none": the else branch)
Branch(c, k) == [service_class |-> c, key |-> k]

\* variant: an unknown provider falls back to openai
ProviderBranch_fallback(p) ==
    IF p = "google" THEN Branch("google", "GOOGLE_API_KEY")
    ELSE IF p = "qwen" THEN Branch("qwen", "QWEN_API_KEY")
    ELSE Branch("openai", "OPENAI_API_KEY")

ProviderBranch(p) ==
    IF p = "openai" THEN Branch("openai", "OPENAI_API_KEY")
    ELSE IF p = "google" THEN Branch("google", "GOOGLE_API_KEY")
    ELSE IF p = "qwen" THEN Branch("qwen", "QWEN_API_KEY")
    ELSE Branch("none", "none")

\* variant: only None counts as missing
KeyMissing_noneOnly(k) == k = "UNSET"

\* if not api_key   (None or the empty string)
KeyMissing(k) == k \in {"UNSET", ""}

\* variant: the cache is never consulted
SlotHit_never(s) == FALSE

\* variant: the test is inverted
SlotHit_inverted(s) == s = 0

\* if _llm_service_instance is not None
SlotHit(s) == s # 0

\* Adapter constructors: the type of the error raised ("none": constructed),
\* the number of SDK configuration steps taken and whether such a step
\* failed; sdkOk tells whether the SDK step (OpenAI(...), genai.configure)
\* succeeds when it is taken.
CtorResult(e, n, f) == [err |-> e, sdk |-> n, failed |-> f]

OpenAICtor(k, sdkOk) ==
    IF KeyMissing(k) THEN CtorResult("ValueError", 0, FALSE)
    ELSE IF ~sdkOk THEN CtorResult("ConnectionError", 1, TRUE)
    ELSE CtorResult("none", 1, FALSE)

\* variant: a failure of genai.configure is reported like a missing key
GoogleCtor_valueError(k, sdkOk) ==
    IF KeyMissing(k) THEN CtorResult("ValueError", 0, FALSE)
    ELSE IF ~sdkOk THEN CtorResult("ValueError", 1, TRUE)
    ELSE CtorResult("none", 1, FALSE)

GoogleCtor(k, sdkOk) ==
    IF KeyMissing(k) THEN CtorResult("ValueError", 0, FALSE)
    ELSE IF ~sdkOk THEN CtorResult("ConnectionError", 1, TRUE)
    ELSE CtorResult("none", 1, FALSE)

\* dashscope.api_key = self.api_key cannot fail, and the key is then set
QwenCtor(k, sdkOk) ==
    IF KeyMissing(k) THEN CtorResult("ValueError", 0, FALSE)
    ELSE CtorResult("none", 1, FALSE)

Ctor(cls, k, sdkOk) ==
    IF cls = "openai" THEN OpenAICtor(k, sdkOk)
    ELSE IF cls = "google" THEN GoogleCtor(k, sdkOk)
    ELSE QwenCtor(k, sdkOk)

Instance(cls, k, by) == [cls |-> cls, api_key |-> k, by |-> by]

\* One thread's call: its position, its locals (provider, api_key,
\* service_class, new: the instance just constructed), its outcome (ret, err)
\* and what it did: miss (it found the slot empty), built (instances it
\* constructed), sdk (SDK configuration steps it took), sdkFail (such a step
\* failed), keyReads (credential variables it read).
Idle ==
    [pc |-> "idle", kind |-> "none", provider |-> "none", api_key |-> "UNSET",
     service_class |-> "none", new |-> 0, ret |-> 0, err |-> "none",
     miss |-> FALSE, built |-> 0, sdk |-> 0, sdkFail |-> FALSE,
     keyReads |-> {}]

InitFactory ==
    /\ env \in Envs
    /\ slot = 0
    /\ heap = <<>>
    /\ th = [t \in Threads |-> Idle]
    /\ ops = 0
    /\ envChanges = 0
    /\ clears = 0

\* thread t calls get_llm_service()
CallGet(t) ==
    /\ th[t].pc \in {"idle", "done"}
    /\ ops < MaxOps
    /\ ops' = ops + 1
    /\ th' = [th EXCEPT ![t] = [Idle EXCEPT !.pc = "check", !.kind = "get"]]
    /\ UNCHANGED <<env, slot, heap, envChanges, clears>>

\* if _llm_service_instance is not None:
Check(t) ==
    /\ th[t].pc = "check"
    /\ th' = [th EXCEPT ![t].pc = IF SlotHit(slot) THEN "cached" ELSE "resolve",
                        ![t].miss = ~SlotHit(slot)]
    /\ UNCHANGED <<env, slot, heap, ops, envChanges, clears>>

\*     return _llm_service_instance     (the global is loaded again)
ReturnCached(t) ==
    /\ th[t].pc = "cached"
    /\ th' = [th EXCEPT ![t].pc = "done", ![t].ret = slot]
    /\ UNCHANGED <<env, slot, heap, ops, envChanges, clears>>

\* Provider and credential are read and validated.
Resolve(t) ==
    /\ th[t].pc = "resolve"
    /\ LET p == ReadProvider(env)
           b == ProviderBranch(p)
           k == IF b.key = "none" THEN "UNSET" ELSE env[b.key]
           reads == IF b.key = "none" THEN {} ELSE {b.key}
           failed == b.service_class = "none" \/ KeyMissing(k)
       IN th' = [th EXCEPT ![t].provider = p,
                           ![t].service_class = b.service_class,
                           ![t].api_key = k,
                           ![t].keyReads = reads,
                           ![t].err = IF failed THEN "ValueError" ELSE "none",
                           ![t].pc = IF failed THEN "done" ELSE "construct"]
    /\ UNCHANGED <<env, slot, heap, ops, envChanges, clears>>

\* variant: the instance is put into the slot before its constructor has
\* finished, and stays there when the constructor raises
Construct_cachesPartial(t) ==
    /\ th[t].pc = "construct"
    /\ \E sdkOk \in BOOLEAN :
        LET c == Ctor(th[t].service_class, th[t].api_key, sdkOk)
        IN IF c.err = "none"
           THEN /\ heap' = Append(heap, Instance(th[t].service_class,
                                                 th[t].api_key, "factory"))
                /\ slot' = slot
                /\ th' = [th EXCEPT ![t].new = Len(heap) + 1,
                                    ![t].built = 1,
                                    ![t].sdk = c.sdk,
                                    ![t].pc = "store"]
           ELSE /\ heap' = Append(heap, Instance(th[t].service_class,
                                                 th[t].api_key, "factory"))
                /\ slot' = Len(heap) + 1
                /\ th' = [th EXCEPT ![t].err = c.err,
                                    ![t].sdk = c.sdk,
                                    ![t].sdkFail = c.failed,
                                    ![t].pc = "done"]
    /\ UNCHANGED <<env, ops, envChanges, clears>>

\* variant: a constructor that raises resets the slot
Construct_resetsSlot(t) ==
    /\ th[t].pc = "construct"
    /\ \E sdkOk \in BOOLEAN :
        LET c == Ctor(th[t].service_class, th[t].api_key, sdkOk)
        IN IF c.err = "none"
           THEN /\ heap' = Append(heap, Instance(th[t].service_class,
                                                 th[t].api_key, "factory"))
                /\ slot' = slot
                /\ th' = [th EXCEPT ![t].new = Len(heap) + 1,
                                    ![t].built = 1,
                                    ![t].sdk = c.sdk,
                                    ![t].pc = "store"]
           ELSE /\ heap' = heap
                /\ slot' = 0
                /\ th' = [th EXCEPT ![t].err = c.err,
                                    ![t].sdk = c.sdk,
                                    ![t].sdkFail = c.failed,
                                    ![t].pc = "done"]
    /\ UNCHANGED <<env, ops, envChanges, clears>>

\* service_class(api_key=api_key)
Construct(t) ==
    /\ th[t].pc = "construct"
    /\ \E sdkOk \in BOOLEAN :
        LET c == Ctor(th[t].service_class, th[t].api_key, sdkOk)
        IN IF c.err = "none"
           THEN /\ heap' = Append(heap, Instance(th[t].service_class,
                                                 th[t].api_key, "factory"))
                /\ th' = [th EXCEPT ![t].new = Len(heap) + 1,
                                    ![t].built = 1,
                                    ![t].sdk = c.sdk,
                                    ![t].pc = "store"]
           ELSE /\ heap' = heap
                /\ th' = [th EXCEPT ![t].err = c.err,
                                    ![t].sdk = c.sdk,
                                    ![t].sdkFail = c.failed,
                                    ![t].pc = "done"]
    /\ UNCHANGED <<env, slot, ops, envChanges, clears>>

\* _llm_service_instance = <the new instance>
Store(t) ==
    /\ th[t].pc = "store"
    /\ slot' = th[t].new
    /\ th' = [th EXCEPT ![t].pc = "return"]
    /\ UNCHANGED <<env, heap, ops, envChanges, clears>>

\* return _llm_service_instance
Return(t) ==
    /\ th[t].pc = "return"
    /\ th' = [th EXCEPT ![t].pc = "done", ![t].ret = slot]
    /\ UNCHANGED <<env, slot, heap, ops, envChanges, clears>>

\* thread t constructs an adapter itself: Cls(api_key=k)
DirectConstruct(t) ==
    /\ th[t].pc \in {"idle", "done"}
    /\ ops < MaxOps
    /\ ops' = ops + 1
    /\ \E cls \in Adapters, k \in KeyValues, sdkOk \in BOOLEAN :
        LET c == Ctor(cls, k, sdkOk)
            me == [Idle EXCEPT !.kind = "direct", !.service_class = cls,
                               !.api_key = k, !.pc = "done", !.sdk = c.sdk,
                               !.sdkFail = c.failed]
        IN IF c.err = "none"
           THEN /\ heap' = Append(heap, Instance(cls, k, "direct"))
                /\ th' = [th EXCEPT ![t] = [me EXCEPT !.ret = Len(heap) + 1,
                                                      !.built = 1]]
           ELSE /\ heap' = heap
                /\ th' = [th EXCEPT ![t] = [me EXCEPT !.err = c.err]]
    /\ UNCHANGED <<env, slot, envChanges, clears>>

\* no factory call or construction is under way
Quiescent == \A t \in Threads : th[t].pc \in {"idle", "done"}

\* os.environ[name] = v / del os.environ[name], between two calls (the
\* locals of the calls that have returned are gone)
SetEnv ==
    /\ Quiescent
    /\ envChanges < MaxEnvChanges
    /\ envChanges' = envChanges + 1
    /\ \E name \in EnvNames :
        \E v \in EnvValues(name) :
            /\ v # env[name]
            /\ env' = [env EXCEPT ![name] = v]
    /\ th' = [t \in Threads |-> Idle]
    /\ UNCHANGED <<slot, heap, ops, clears>>

\* _llm_service_instance = None   (the explicit cache reset), between two calls
ClearSlot ==
    /\ Quiescent
    /\ clears < MaxClears
    /\ clears' = clears + 1
    /\ slot' = 0
    /\ th' = [t \in Threads |-> Idle]
    /\ UNCHANGED <<env, heap, ops, envChanges>>

\* ======================================================= request building
\* What an operation sends: the effective model and the message list (for
\* Google the single prompt part, as one message without a role).  A str is a
\* sequence of tokens: the characters of a text, or a whole fixed phrase.
SourceLanguages == {"auto", "AUTO", "Auto", "", "French"}
TargetLanguages == {"Spanish"}
ModelPreferences == {"None", "", "my-model"}
\* context=None, as a str that is no text
NoneText == <<"None">>
Contexts == Texts \cup {NoneText}
Prompts == {"query"}

\* str.lower() on the source languages above
LowerLang(s) ==
    IF s \in {"AUTO", "Auto"} THEN "auto"
    ELSE IF s = "French" THEN "french"
    ELSE s

\* truthiness of an optional text
TruthyText(s) == s \notin {NoneText, <<>>}

\* the source-language part of the translation instruction
SourceInstruction(a, sl) ==
    IF a = "openai"
    THEN IF sl # "auto" THEN <<"from", sl>> ELSE <<"from", "the detected language">>
    ELSE IF TruthyOpt(sl) /\ LowerLang(sl) # "auto" THEN <<"from", sl>>
         ELSE <<"from", "the detected language">>

\* the values of GEMINI_ANALYSIS_PROMPTS / QWEN_ANALYSIS_PROMPTS
PromptTemplate(t) ==
    IF t = "summary" THEN <<"Summarize the following text concisely: ">>
    ELSE <<"Extract the main keywords from the following text, comma-separated: ">>

\* the system messages of OpenAI's analyze_text
OpenAIAnalysisSystem(t) ==
    IF t = "summary"
    THEN <<"You are a helpful assistant. Summarize the following text concisely.">>
    ELSE <<"You are a helpful assistant. Extract the main keywords from the following text, comma-separated.">>

\* s[:n]
Prefix(s, n) == SubSeq(s, 1, IF Len(s) < n THEN Len(s) ELSE n)

OpenAITextLimit == 8000
OpenAIContextLimit == 4000

Message(r, c) == [role |-> r, content |-> c]
Request(m, msgs) == [kind |-> "request", model |-> m, messages |-> msgs]
NoRequest == [kind |-> "none", model |-> "none", messages |-> <<>>]
\* analyze_text raised NotImplementedError before building anything
Refused(m) == [kind |-> "raise", model |-> m, messages |-> <<>>]

Args(a, o, t, tl, sl, at, pr, cx, mp) ==
    [adapter |-> a, op |-> o, text |-> t, target_language |-> tl,
     source_language |-> sl, analysis_type |-> at, prompt |-> pr,
     context |-> cx, model_preference |-> mp]

\* the argument lists of the three operations ("NA": not a parameter of it)
RequestInputs ==
    {Args(a, "translate", t, tl, sl, "NA", "NA", NoneText, mp) :
        a \in Adapters, t \in Texts, tl \in TargetLanguages,
        sl \in SourceLanguages, mp \in ModelPreferences}
    \cup {Args(a, "analyze_text", t, "NA", "NA", at, "NA", NoneText, mp) :
        a \in Adapters, t \in Texts, at \in AnalysisTypes,
        mp \in ModelPreferences}
    \cup {Args(a, "generate_response", <<>>, "NA", "NA", "NA", pr, cx, mp) :
        a \in Adapters, pr \in Prompts, cx \in Contexts,
        mp \in ModelPreferences}

TranslateMessages(r) ==
    LET src == SourceInstruction(r.adapter, r.source_language)
    IN IF r.adapter = "openai"
       THEN <<Message("system",
                      <<"You are a helpful translation assistant. Translate the following text">>
                          \o src \o <<"to", r.target_language, ".">>),
              Message("user", r.text)>>
       ELSE IF r.adapter = "google"
       THEN <<Message("part",
                      <<"Translate the following text">> \o src
                          \o <<"to", r.target_language, ": \"">> \o r.text \o <<"\"">>)>>
       ELSE <<Message("system", <<"You are a helpful translation assistant.">>),
              Message("user",
                      <<"Translate the following text">> \o src
                          \o <<"to", r.target_language,
                               ". Output only the translated text, without any additional explanations or conversation. Text to translate: \"">>
                          \o r.text \o <<"\"">>)>>

\* variant: the text is stripped before it is appended
QwenAnalysisMessages_stripped(r) ==
    <<Message("system", <<"You are a helpful text analysis assistant.">>),
      Message("user", PromptTemplate(r.analysis_type) \o Strip(r.text))>>

QwenAnalysisMessages(r) ==
    <<Message("system", <<"You are a helpful text analysis assistant.">>),
      Message("user", PromptTemplate(r.analysis_type) \o r.text)>>

AnalysisMessages(r) ==
    IF r.adapter = "openai"
    THEN <<Message("system", OpenAIAnalysisSystem(r.analysis_type)),
           Message("user", Prefix(r.text, OpenAITextLimit))>>
    ELSE IF r.adapter = "google"
    THEN <<Message("part", PromptTemplate(r.analysis_type) \o r.text)>>
    ELSE QwenAnalysisMessages(r)

GenerateMessages(r) ==
    IF r.adapter = "openai"
    THEN <<Message("system",
                   <<"You are an intelligent assistant. Provide a concise and relevant answer to the user's query.">>)>>
         \o (IF TruthyText(r.context)
             THEN <<Message("system", <<"Consider the following context: ">>
                                          \o Prefix(r.context, OpenAIContextLimit))>>
             ELSE <<>>)
         \o <<Message("user", <<r.prompt>>)>>
    ELSE IF r.adapter = "google"
    THEN <<Message("part",
                   (IF TruthyText(r.context)
                    THEN <<"Based on this context: \"">> \o r.context \o <<"\"\n\n">>
                    ELSE <<>>)
                   \o <<"Respond to this query: \"", r.prompt, "\"">>)>>
    ELSE <<Message("system", <<"You are an intelligent and helpful assistant.">>),
           Message("user",
                   IF TruthyText(r.context)
                   THEN <<"Context: \"">> \o r.context
                            \o <<"\"\n\nQuery: \"", r.prompt, "\"">>
                   ELSE <<r.prompt>>)>>

\* what the operation hands to its vendor call
BuildRequest(r) ==
    LET m == GetModel(r.adapter, r.model_preference)
    IN IF r.op = "translate" THEN Request(m, TranslateMessages(r))
       ELSE IF r.op = "analyze_text"
       THEN IF r.analysis_type \in SupportedAnalysis(r.adapter)
            THEN Request(m, AnalysisMessages(r))
            ELSE Refused(m)
       ELSE Request(m, GenerateMessages(r))

InitRequest ==
    /\ req \in RequestInputs
    /\ built = NoRequest

\* the operation runs up to its vendor call
Build ==
    /\ built = NoRequest
    /\ built' = BuildRequest(req)
    /\ UNCHANGED req

\* the caller calls an operation again
NewRequest ==
    /\ built # NoRequest
    /\ req' \in RequestInputs
    /\ built' = NoRequest

RequestQuiet ==
    /\ req = Args("openai", "translate", <<>>, "Spanish", "auto", "NA", "NA",
                  NoneText, "None")
    /\ built = NoRequest

\* ========================================================= legacy call_llm
Tasks == {"translate", "search", "analyze_document", "summarize", ""}
LegacyPromptLimit == 2000

\* the module-level initialisation of client
LegacyClient(k, sdkOk) ==
    IF KeyMissing(k) THEN "None"
    ELSE IF ~sdkOk THEN "None"
    ELSE "client"

\* the user message call_llm builds ("none": the task is not recognized)
LegacyUserMessage(task, prompt) ==
    IF task = "translate" THEN prompt
    ELSE IF task = "search"
    THEN <<"Search or answer based on the following query: ">> \o prompt
    ELSE IF task = "analyze_document"
    THEN <<"Analyze the following document content: ">>
             \o Prefix(prompt, LegacyPromptLimit)
    ELSE <<"none">>

TaskRecognized(task) == task \in {"translate", "search", "analyze_document"}

\* variant: an APIError is raised to the caller
LegacyResult_raises(o, c) ==
    IF o.kind = "apierror" THEN Raised(Err("APIError", 0, c))
    ELSE IF o.kind = "raise" THEN Returned(<<"An unexpected error occurred: ", "error">>)
    ELSE IF o.kind = "nochoices" THEN Returned(<<"Error: LLM returned no choices.">>)
    ELSE IF o.kind = "content" /\ Truthy(o.text) THEN Returned(Strip(o.text))
    ELSE Returned(<<"Error: LLM returned an empty message content.">>)

\* what call_llm returns for the outcome o of its vendor invocation c
LegacyResult(o, c) ==
    IF o.kind = "apierror" THEN Returned(<<"Error interacting with LLM: ", "error">>)
    ELSE IF o.kind = "raise" THEN Returned(<<"An unexpected error occurred: ", "error">>)
    ELSE IF o.kind = "nochoices" THEN Returned(<<"Error: LLM returned no choices.">>)
    ELSE IF o.kind = "content" /\ Truthy(o.text) THEN Returned(Strip(o.text))
    ELSE Returned(<<"Error: LLM returned an empty message content.">>)

LegacyState(pr, t, p, um, r, n, o) ==
    [prompt |-> pr, task |-> t, pc |-> p, user_message |-> um, result |-> r,
     calls |-> n, last |-> o]

LegacyIdle == LegacyState(<<>>, "translate", "idle", <<"none">>, NoResult, 0, NoOutcome)

InitLegacy ==
    /\ \E k \in EnvValues("OPENAI_API_KEY"), sdkOk \in BOOLEAN :
           client = LegacyClient(k, sdkOk)
    /\ legacy = LegacyIdle

\* call_llm(prompt, task) is called
LegacyCall ==
    /\ legacy.pc \in {"idle", "done"}
    /\ \E pr \in Texts, t \in Tasks :
           legacy' = LegacyState(pr, t, "called", <<"none">>, NoResult, 0, NoOutcome)
    /\ UNCHANGED client

\* the body of call_llm
LegacyRun ==
    /\ legacy.pc = "called"
    /\ IF client = "None"
       THEN legacy' = [legacy EXCEPT
                !.pc = "done",
                !.result = Returned(<<"Error: OpenAI client not initialized. Is OPENAI_API_KEY set?">>)]
       ELSE IF ~TaskRecognized(legacy.task)
       THEN legacy' = [legacy EXCEPT
                !.pc = "done",
                !.result = Returned(<<"LLM task not recognized by the new service.">>)]
       ELSE \E o \in OpenAIOutcomes :
                legacy' = [legacy EXCEPT
                    !.pc = "done",
                    !.user_message = LegacyUserMessage(legacy.task, legacy.prompt),
                    !.calls = 1,
                    !.last = o,
                    !.result = LegacyResult(o, 1)]
    /\ UNCHANGED client

LegacyQuiet ==
    /\ client = "None"
    /\ legacy = LegacyIdle

\* the web request being handled
\* got: the error of get_llm_service ("NA": not called); opkind: how the
\* adapter operation ended ("NA": not called)
WebState(r, p, st, g, k) ==
    [route |-> r, pc |-> p, status |-> st, got |-> g, opkind |-> k]

WebQuiet == web = WebState("/api/translate", "idle", 0, "NA", "NA")

\* --------------------------------------------------------- specifications
\* a call in progress on an adapter leaves the factory alone, and conversely
FactoryQuiet ==
    /\ env = [LLM_PROVIDER |-> "UNSET", OPENAI_API_KEY |-> "sk-o",
              GOOGLE_API_KEY |-> "UNSET", QWEN_API_KEY |-> "UNSET"]
    /\ slot = 0
    /\ heap = <<>>
    /\ th = [t \in Threads |-> Idle]
    /\ ops = 0
    /\ envChanges = 0
    /\ clears = 0

CallQuiet ==
    /\ adapter = "openai"
    /\ op = "translate"
    /\ analysis_type = "NA"
    /\ max_retries = DefaultMaxRetries
    /\ pc = "done"
    /\ attempts = 0
    /\ last_exception = NoErr
    /\ response = NoOutcome
    /\ result = NoResult
    /\ calls = 0
    /\ hist = <<>>
    /\ last = NoOutcome
    /\ model_preference = "None"
    /\ model_name = "none"
    /\ sent_models = {}

\* the call has returned to a caller that keeps nothing of it
CallEnded ==
    /\ adapter' = "openai"
    /\ op' = "translate"
    /\ analysis_type' = "NA"
    /\ max_retries' = DefaultMaxRetries
    /\ pc' = "done"
    /\ attempts' = 0
    /\ last_exception' = NoErr
    /\ response' = NoOutcome
    /\ result' = NoResult
    /\ calls' = 0
    /\ hist' = <<>>
    /\ last' = NoOutcome
    /\ model_preference' = "None"
    /\ model_name' = "none"
    /\ sent_models' = {}

Init == InitCall /\ FactoryQuiet /\ RequestQuiet /\ LegacyQuiet /\ prior = "none" /\ WebQuiet

Next ==
    \/ (Begin /\ UNCHANGED outsideCall)
    \/ (GoogleAttempt /\ UNCHANGED outsideCall)
    \/ (QwenAttempt /\ UNCHANGED outsideCall)
    \/ (Extract /\ UNCHANGED outsideCall)
    \/ (OpenAICreate /\ UNCHANGED outsideCall)
    \/ (NewCall /\ UNCHANGED outsideCall)

\* Calls on one adapter, one after the other.
Spec == Init /\ [][Next]_vars

\* Every vendor invocation returns or raises, and the interpreter keeps
\* running the call; the caller is not obliged to make another call.
FairSpec == Spec /\ WF_vars(CallStep /\ UNCHANGED outsideCall)

InitF == CallQuiet /\ InitFactory /\ RequestQuiet /\ LegacyQuiet /\ prior = "none" /\ WebQuiet

NextFactory ==
    \E t \in Threads :
        \/ (CallGet(t) /\ UNCHANGED outsideFactory)
        \/ (Check(t) /\ UNCHANGED outsideFactory)
        \/ (ReturnCached(t) /\ UNCHANGED outsideFactory)
        \/ (Resolve(t) /\ UNCHANGED outsideFactory)
        \/ (Construct(t) /\ UNCHANGED outsideFactory)
        \/ (Store(t) /\ UNCHANGED outsideFactory)
        \/ (Return(t) /\ UNCHANGED outsideFactory)

\* Threads calling get_llm_service concurrently under a fixed environment.
SpecFactory == InitF /\ [][NextFactory]_vars

NextSeq ==
    \/ (CallGet(1) /\ UNCHANGED outsideFactory)
    \/ (Check(1) /\ UNCHANGED outsideFactory)
    \/ (ReturnCached(1) /\ UNCHANGED outsideFactory)
    \/ (Resolve(1) /\ UNCHANGED outsideFactory)
    \/ (Construct(1) /\ UNCHANGED outsideFactory)
    \/ (Store(1) /\ UNCHANGED outsideFactory)
    \/ (Return(1) /\ UNCHANGED outsideFactory)
    \/ (DirectConstruct(1) /\ UNCHANGED outsideFactory)
    \/ (SetEnv /\ UNCHANGED outsideFactory)
    \/ (ClearSlot /\ UNCHANGED outsideFactory)

\* One thread: factory calls, direct constructions, changes of the
\* environment and explicit cache resets, one after the other.
SpecSeq == InitF /\ [][NextSeq]_vars

NextModel ==
    \/ (Begin /\ UNCHANGED outsideCall)
    \/ (GoogleAttempt /\ UNCHANGED outsideCall)
    \/ (QwenAttempt /\ UNCHANGED outsideCall)
    \/ (Extract /\ UNCHANGED outsideCall)
    \/ (OpenAICreate /\ UNCHANGED outsideCall)
    \/ (NewCallWithModel /\ UNCHANGED outsideCall)

\* Calls on one adapter, one after the other, by callers that may state a
\* model preference.
InitModel ==
    /\ InitCallFrom(ModelCallInputs)
    /\ FactoryQuiet /\ RequestQuiet /\ LegacyQuiet /\ prior = "none" /\ WebQuiet

SpecModel == InitModel /\ [][NextModel]_vars

NextRequest ==
    \/ (Build /\ UNCHANGED outsideRequest)
    \/ (NewRequest /\ UNCHANGED outsideRequest)

\* The requests the operations build, for every argument list.
InitReq ==
    CallQuiet /\ FactoryQuiet /\ InitRequest /\ LegacyQuiet /\ prior = "none" /\ WebQuiet

SpecRequest == InitReq /\ [][NextRequest]_vars

NextLegacy ==
    \/ (LegacyCall /\ UNCHANGED outsideLegacy)
    \/ (LegacyRun /\ UNCHANGED outsideLegacy)

\* Calls of the legacy call_llm, one after the other.
InitL ==
    CallQuiet /\ FactoryQuiet /\ RequestQuiet /\ InitLegacy /\ prior = "none" /\ WebQuiet

SpecLegacy == InitL /\ [][NextLegacy]_vars

\* the environment that selects adapter a with its own credential only
UseEnv(a) ==
    [LLM_PROVIDER |-> a,
     OPENAI_API_KEY |-> IF a = "openai" THEN "sk-o" ELSE "UNSET",
     GOOGLE_API_KEY |-> IF a = "google" THEN "sk-g" ELSE "UNSET",
     QWEN_API_KEY |-> IF a = "qwen" THEN "sk-q" ELSE "UNSET"]

\* get_llm_service has returned the adapter the calls are made on
FactoryAfterGet ==
    /\ env = UseEnv(adapter)
    /\ heap = <<Instance(adapter, env[ProviderBranch(adapter).key], "factory")>>
    /\ slot = 1
    /\ th = [t \in Threads |-> Idle]
    /\ ops = 1
    /\ envChanges = 0
    /\ clears = 0

InitUse ==
    InitCall /\ FactoryAfterGet /\ RequestQuiet /\ LegacyQuiet /\ prior = "none" /\ WebQuiet

NextUse ==
    \/ (Begin /\ UNCHANGED outsideCall)
    \/ (GoogleAttempt /\ UNCHANGED outsideCall)
    \/ (QwenAttempt /\ UNCHANGED outsideCall)
    \/ (Extract /\ UNCHANGED outsideCall)
    \/ (OpenAICreate /\ UNCHANGED outsideCall)
    \/ (NextCall /\ UNCHANGED <<factoryVars, reqVars, legacyVars, web>>)

\* Calls on the adapter instance the factory returned, one after the other.
SpecUse == InitUse /\ [][NextUse]_vars

\* ============================================================ web handlers
Routes == {"/api/translate", "/api/convert-document", "/api/search"}

\* what the handler finds in the request: what it needs ("ok"), not all of it
\* ("missing": no JSON field, no file, no file name), or, for an upload, a
\* file whose read() raises ("unreadable")
RequestShapes(route) ==
    IF route = "/api/convert-document" THEN {"ok", "missing", "unreadable"}
    ELSE {"ok", "missing"}

\* the adapter operation a handler calls and its analysis_type
RouteOp(route) ==
    IF route = "/api/translate" THEN "translate"
    ELSE IF route = "/api/convert-document" THEN "analyze_text"
    ELSE "generate_response"

RouteAnalysisType(route) ==
    IF route = "/api/convert-document" THEN "summary" ELSE "NA"

\* variant: the error is answered like a result
HandlerStatus_ok(raised) == 200

\* the try / except Exception of a handler around get_llm_service and the
\* adapter operation
HandlerStatus(raised) == IF raised THEN 500 ELSE 200

\* the environments the server runs under: each provider with its own
\* credential, an unknown provider, and a provider whose credential is empty
WebEnvs ==
    {UseEnv(a) : a \in Adapters}
        \cup {[UseEnv("openai") EXCEPT !.LLM_PROVIDER = "azure"],
              [UseEnv("google") EXCEPT !.GOOGLE_API_KEY = ""]}

InitWebFactory ==
    /\ env \in WebEnvs
    /\ slot = 0
    /\ heap = <<>>
    /\ th = [t \in Threads |-> Idle]
    /\ ops = 0
    /\ envChanges = 0
    /\ clears = 0

\* A request arrives: the handler validates it and, if it is complete,
\* enters get_llm_service.
WebRequest ==
    /\ web.pc \in {"idle", "responded"}
    /\ ops < MaxOps
    /\ \E route \in Routes :
        \E shape \in RequestShapes(route) :
            IF shape = "ok"
            THEN /\ web' = WebState(route, "get", 0, "NA", "NA")
                 /\ CallGet(1)
            ELSE /\ web' = WebState(route, "responded",
                                    IF shape = "missing" THEN 400 ELSE 500,
                                    "NA", "NA")
                 /\ UNCHANGED factoryVars
    /\ UNCHANGED <<callVars, reqVars, legacyVars, prior>>

\* get_llm_service has returned or raised: the handler answers the error or
\* calls its adapter operation on the instance it got.
WebCallOp ==
    /\ web.pc = "get"
    /\ th[1].pc = "done"
    /\ IF th[1].err # "none"
       THEN /\ web' = [web EXCEPT !.pc = "responded",
                                  !.status = HandlerStatus(TRUE),
                                  !.got = th[1].err]
            /\ UNCHANGED callVars
       ELSE /\ web' = [web EXCEPT !.pc = "op", !.got = "none"]
            /\ StartCall([adapter |-> heap[th[1].ret].cls,
                          op |-> RouteOp(web.route),
                          analysis_type |-> RouteAnalysisType(web.route),
                          max_retries |-> DefaultMaxRetries,
                          model_preference |-> "None"])
    /\ UNCHANGED <<factoryVars, reqVars, legacyVars, prior>>

\* The adapter operation has returned or raised: the handler answers; the
\* frame of the call is gone.
WebRespond ==
    /\ web.pc = "op"
    /\ pc = "done"
    /\ web' = [web EXCEPT !.pc = "responded",
                          !.status = HandlerStatus(result.kind = "raise"),
                          !.opkind = result.kind]
    /\ CallEnded
    /\ UNCHANGED <<factoryVars, reqVars, legacyVars, prior>>

InitWeb ==
    /\ CallQuiet /\ InitWebFactory /\ RequestQuiet /\ LegacyQuiet
    /\ prior = "none" /\ WebQuiet

NextWeb ==
    \/ WebRequest
    \/ (Check(1) /\ UNCHANGED outsideFactory)
    \/ (ReturnCached(1) /\ UNCHANGED outsideFactory)
    \/ (Resolve(1) /\ UNCHANGED outsideFactory)
    \/ (Construct(1) /\ UNCHANGED outsideFactory)
    \/ (Store(1) /\ UNCHANGED outsideFactory)
    \/ (Return(1) /\ UNCHANGED outsideFactory)
    \/ WebCallOp
    \/ (Begin /\ UNCHANGED outsideCall)
    \/ (GoogleAttempt /\ UNCHANGED outsideCall)
    \/ (QwenAttempt /\ UNCHANGED outsideCall)
    \/ (Extract /\ UNCHANGED outsideCall)
    \/ (OpenAICreate /\ UNCHANGED outsideCall)
    \/ WebRespond

\* The web handlers, one request after the other.
SpecWeb == InitWeb /\ [][NextWeb]_vars

NextRecover ==
    \/ (CallGet(1) /\ UNCHANGED outsideFactory)
    \/ (Check(1) /\ UNCHANGED outsideFactory)
    \/ (ReturnCached(1) /\ UNCHANGED outsideFactory)
    \/ (Resolve(1) /\ UNCHANGED outsideFactory)
    \/ (Construct(1) /\ UNCHANGED outsideFactory)
    \/ (Store(1) /\ UNCHANGED outsideFactory)
    \/ (Return(1) /\ UNCHANGED outsideFactory)
    \/ (SetEnv /\ UNCHANGED outsideFactory)

\* One thread calling get_llm_service again and again while the environment
\* is changed between calls; the slot is never reset.
SpecRecover == InitF /\ [][NextRecover]_vars

TypeOK ==
    /\ adapter \in Adapters
    /\ op \in Entries
    /\ pc \in {"start", "retry", "create", "extract", "done"}
    /\ attempts \in 0..(MaxN + 1)
    /\ calls \in 0..MaxCalls
    /\ slot \in 0..Len(heap)
    /\ env \in Envs

\* ================================================================== claims
\* The invocation failed: the vendor raised or reported a failure status (for
\* Qwen, a response without output or choices is handled as such a status).
Failed(a, k) ==
    IF a = "google" THEN k = "raise"
    ELSE IF a = "qwen" THEN k \in {"raise", "non200", "nooutput", "nochoices"}
    ELSE k \in {"apierror", "raise"}

\* The invocation gave a well-formed response that carries no usable text.
NoUsableText(a, k) ==
    IF a = "google" THEN k \in {"falsy", "noattr", "textNone", "empty"}
    ELSE IF a = "qwen" THEN k \in {"nooutput", "nochoices", "contentNone", "empty"}
    ELSE k \in {"nochoices", "nomessage", "contentNone", "empty"}

\* The invocation gave a response with non-empty text.
TextBearing(k) == k \in {"text", "content"}

AllFailed == hist # <<>> /\ \A i \in 1..Len(hist) : Failed(adapter, hist[i])
AllNoUsableText == hist # <<>> /\ \A i \in 1..Len(hist) : NoUsableText(adapter, hist[i])

\* C1: one logical call makes at most max_retries + 1 physical vendor
\* invocations, whatever the vendor answers.
C1_AtMostNPlusOneInvocations == calls <= max_retries + 1

\* C2: every call that has started eventually returns or raises.
C2_EveryCallEnds == (pc = "start") ~> (pc = "done")

C4_SuccessEndsTheLoop ==
    (adapter \in {"google", "qwen"}) =>
        /\ \A i \in 1..(Len(hist) - 1) : ~TextBearing(hist[i])
        /\ (hist # <<>> /\ TextBearing(hist[Len(hist)])) =>
              /\ pc \in {"extract", "done"}
              /\ calls = Len(hist)
              /\ last.kind = hist[Len(hist)]
              /\ response = last
              /\ (pc = "done") =>
                    IF op = "wrapper" THEN result = ReturnedResponse
                    ELSE result = Returned(Strip(last.text))

C4_Witness ==
    /\ adapter = "qwen"
    /\ op = "wrapper"
    /\ max_retries = 2
    /\ hist = <<"raise", "non200", "content">>
    /\ calls = 3
    /\ pc = "done"
    /\ result = ReturnedResponse
    /\ Truthy(response.text)

\* C7: analyze_text with an analysis_type outside {summary, keywords} raises
\* NotImplementedError and never invokes the vendor or enters the retry loop.
C7_UnsupportedAnalysisTypeRaises ==
    (op = "analyze_text" /\ analysis_type \notin {"summary", "keywords"}) =>
        /\ calls = 0
        /\ attempts = 0
        /\ pc \in {"start", "done"}
        /\ (pc = "done") => (result = Raised(Err("NotImplementedError", 0, 0)))

C7_Witness ==
    /\ op = "analyze_text"
    /\ analysis_type = "sentiment"
    /\ adapter = "qwen"
    /\ pc = "done"
    /\ result.kind = "raise"

\* C10: a call whose every invocation gave a well-formed response without
\* usable text ends by raising, never by returning the sentinel string.
C10_NoTextNeverReturnsSentinel ==
    (pc = "done" /\ AllNoUsableText) => (result.kind = "raise")

\* ------------------------------------------------- call claims, continued
\* the latest invocation gave a response with non-empty text
LastHasText == last.kind \in {"text", "content"} /\ last.text # <<>>

\* n spaces
RECURSIVE Spaces(_)
Spaces(n) == IF n = 0 THEN <<>> ELSE <<" ">> \o Spaces(n - 1)

\* r is t without its leading and trailing whitespace
IsStripped(r, t) ==
    /\ \E i, j \in 0..Len(t) : t = Spaces(i) \o r \o Spaces(j)
    /\ (r # <<>>) => (r[1] # " " /\ r[Len(r)] # " ")

\* C11: in the Google adapter, a call that ends on a response without text
\* raises ValueError.
C11_GoogleNoTextRaisesValueError ==
    (adapter = "google" /\ pc = "done" /\ last.kind \in {"falsy", "noattr"}) =>
        (result.kind = "raise" /\ result.err.type = "ValueError")

\* C12: every response a retry wrapper returns carries non-empty text.
C12_WrapperReturnsOnlyText ==
    (pc = "extract") => (response.kind \in {"text", "content"} /\ response.text # <<>>)

\* C13: the ConnectionError of a wrapper that gives up reports as many
\* attempts as vendor invocations were made and wraps the failure of the
\* last one.
C13_ReportedAttemptsAreInvocations ==
    (pc = "done" /\ result.kind = "raise" /\ result.err.type = "ConnectionError") =>
        (result.err.reported = calls /\ result.err.cause = calls)

\* C14 as stated: every adapter surfaces a vendor failure on its last
\* invocation as ConnectionError.
C14_EveryAdapterRaisesConnectionError ==
    (pc = "done" /\ Failed(adapter, last.kind)) =>
        (result.kind = "raise" /\ result.err.type = "ConnectionError")

\* C14 amended: a call that ends on a vendor failure raises ConnectionError
\* in the Google and Qwen adapters; the OpenAI adapter raises the generic
\* Exception for an APIError and re-raises any other vendor error.
C14_VendorFailureSurfacedPerAdapter ==
    (pc = "done" /\ Failed(adapter, last.kind)) =>
        /\ result.kind = "raise"
        /\ result.err.type =
              IF adapter \in {"google", "qwen"} THEN "ConnectionError"
              ELSE IF last.kind = "apierror" THEN "Exception"
              ELSE "VendorError"

C14_Witness ==
    /\ adapter = "openai"
    /\ pc = "done"
    /\ last.kind = "apierror"
    /\ result.kind = "raise"
    /\ result.err.type = "Exception"

\* C15: an operation never returns the empty string.
C15_ReturnedStringNonEmpty ==
    (pc = "done" /\ result.kind = "string") => (result.text # <<>>)

\* C16: an operation whose vendor response carries text returns that text
\* without its leading and trailing whitespace, otherwise unchanged.
C16_ReturnsStrippedText ==
    (pc = "done" /\ op \in Operations /\ LastHasText) =>
        (result.kind = "string" /\ IsStripped(result.text, last.text))

C16_Witness ==
    /\ pc = "done"
    /\ adapter = "openai"
    /\ op = "generate_response"
    /\ last.text = <<" ", "a", " ">>
    /\ result = Returned(<<"a">>)

\* ---------------------------------------------------------- factory claims
\* the instances get_llm_service has constructed
FactoryBuilt == {i \in 1..Len(heap) : heap[i].by = "factory"}

\* thread t's get_llm_service call has returned an instance
GotInstance(t) == th[t].pc = "done" /\ th[t].kind = "get" /\ th[t].err = "none"

\* thread t's get_llm_service call has ended, having found the slot empty
EndedOnMiss(t) == th[t].pc = "done" /\ th[t].kind = "get" /\ th[t].miss

\* the credential of the provider the environment selects is unset or empty
CredentialMissing ==
    LET b == ProviderBranch(ReadProvider(env))
    IN b.key # "none" /\ env[b.key] \in {"UNSET", ""}

\* the provider name of the environment is none of openai, google, qwen
ProviderUnknown == ReadProvider(env) \notin {"openai", "google", "qwen"}

\* C5: whatever the interleaving of concurrent first calls, one adapter is
\* constructed and all callers get the same instance.
C5_OneInstanceUnderConcurrency ==
    /\ Cardinality(FactoryBuilt) <= 1
    /\ \A t, u \in Threads : (GotInstance(t) /\ GotInstance(u)) => (th[t].ret = th[u].ret)

\* C6: in one thread, with the environment unchanged and the slot not reset,
\* every successful get_llm_service call returns the one instance the factory
\* has constructed, which is the one in the slot.
C6_RepeatedCallsSameInstance ==
    (envChanges = 0 /\ clears = 0 /\ GotInstance(1)) =>
        /\ Cardinality(FactoryBuilt) = 1
        /\ th[1].ret \in FactoryBuilt
        /\ slot = th[1].ret

C6_Witness ==
    /\ envChanges = 0
    /\ clears = 0
    /\ GotInstance(1)
    /\ ~th[1].miss
    /\ th[1].built = 0
    /\ th[1].ret = slot

\* C8 as stated: a get_llm_service call made while the credential of the
\* selected provider is unset or empty raises ValueError.
C8_MissingCredentialAlwaysRaises ==
    \A t \in Threads :
        (th[t].pc = "done" /\ th[t].kind = "get" /\ CredentialMissing) =>
            (th[t].err = "ValueError" /\ th[t].built = 0 /\ th[t].sdk = 0)

\* C8 amended: a get_llm_service call that finds the slot empty while the
\* credential of the selected provider is unset or empty raises ValueError
\* without constructing an adapter or taking an SDK step; so does a direct
\* construction with a None or empty credential.
C8_MissingCredentialRaisesOnMiss ==
    \A t \in Threads :
        /\ (EndedOnMiss(t) /\ CredentialMissing) =>
              /\ th[t].err = "ValueError"
              /\ th[t].ret = 0
              /\ th[t].built = 0
              /\ th[t].sdk = 0
        /\ (th[t].pc = "done" /\ th[t].kind = "direct"
                /\ th[t].api_key \in {"UNSET", ""}) =>
              /\ th[t].err = "ValueError"
              /\ th[t].ret = 0
              /\ th[t].built = 0
              /\ th[t].sdk = 0

C8_Witness ==
    /\ EndedOnMiss(1)
    /\ env.LLM_PROVIDER = "google"
    /\ env.GOOGLE_API_KEY = ""
    /\ env.OPENAI_API_KEY = "sk-o"
    /\ th[1].err = "ValueError"

\* C9: a get_llm_service call that finds the slot empty while the provider
\* name is unknown raises ValueError: it reads no credential, constructs no
\* adapter and leaves the slot empty.
C9_UnknownProviderRaises ==
    \A t \in Threads :
        (EndedOnMiss(t) /\ ProviderUnknown) =>
            /\ th[t].err = "ValueError"
            /\ th[t].ret = 0
            /\ th[t].built = 0
            /\ th[t].sdk = 0
            /\ th[t].keyReads = {}
            /\ th[t].service_class = "none"

C9_Witness ==
    /\ EndedOnMiss(1)
    /\ env.LLM_PROVIDER = "azure"
    /\ env.OPENAI_API_KEY = "sk-o"
    /\ env.GOOGLE_API_KEY = "sk-g"
    /\ env.QWEN_API_KEY = "sk-q"
    /\ th[1].err = "ValueError"
    /\ slot = 0

\* ---------------------------------------------- factory claims, continued
\* the provider the environment names: lower-cased, openai when unset
SelectedProvider ==
    IF env.LLM_PROVIDER \in {"UNSET", "openai", "OpenAI"} THEN "openai"
    ELSE env.LLM_PROVIDER

\* the credential variable of a provider
OwnKeyName(p) ==
    IF p = "openai" THEN "OPENAI_API_KEY"
    ELSE IF p = "google" THEN "GOOGLE_API_KEY"
    ELSE "QWEN_API_KEY"

\* C17: a call reads configuration or constructs only if it found the slot
\* empty; a call that found it populated reads no setting, validates and
\* constructs nothing, cannot fail and returns the instance in the slot,
\* whatever the environment has become.
C17_PopulatedSlotIsReturnedAsIs ==
    \A t \in Threads :
        /\ (th[t].pc \in {"resolve", "construct", "store"}) => (slot = 0 /\ th[t].miss)
        /\ (th[t].kind = "get" /\ th[t].pc \in {"cached", "done"} /\ ~th[t].miss) =>
              /\ slot # 0
              /\ th[t].provider = "none"
              /\ th[t].service_class = "none"
              /\ th[t].keyReads = {}
              /\ th[t].built = 0
              /\ th[t].sdk = 0
              /\ th[t].err = "none"
              /\ (th[t].pc = "done") => (th[t].ret = slot)

C17_Witness ==
    /\ envChanges = 1
    /\ env.LLM_PROVIDER = "azure"
    /\ GotInstance(1)
    /\ ~th[1].miss
    /\ th[1].ret = slot
    /\ slot # 0
    /\ heap[slot].cls = "openai"

\* C18: a call made while the slot is empty (as after a reset) takes the
\* construction path, and when it succeeds it has built one new adapter of
\* the provider now configured and put it in the slot; the factory builds a
\* further adapter only after a reset, and the slot holds nothing but an
\* adapter the factory built.
C18_ResetThenRebuild ==
    /\ \A t \in Threads :
        /\ (th[t].kind = "get" /\ th[t].pc \notin {"idle", "check"} /\ slot = 0)
              => th[t].miss
        /\ (GotInstance(t) /\ th[t].miss) =>
              /\ th[t].built = 1
              /\ th[t].ret = slot
              /\ th[t].ret = Len(heap)
              /\ heap[th[t].ret].cls = SelectedProvider
              /\ heap[th[t].ret].by = "factory"
    /\ Cardinality(FactoryBuilt) <= clears + 1
    /\ (slot # 0) => (slot \in FactoryBuilt)

C18_Witness ==
    /\ clears = 1
    /\ envChanges = 1
    /\ GotInstance(1)
    /\ th[1].miss
    /\ Cardinality(FactoryBuilt) = 2
    /\ heap[th[1].ret].cls = "google"
    /\ heap[1] = Instance("openai", "sk-o", "factory")
    /\ slot = th[1].ret

\* C19: a call that found the slot empty consults the credential variable of
\* the selected provider and no other; without that credential it raises
\* ValueError whatever the other credentials are, and the adapter it returns
\* is of the selected provider's class and holds that credential.
C19_SelectedProviderOwnCredential ==
    \A t \in Threads :
        (EndedOnMiss(t) /\ SelectedProvider \in {"openai", "google", "qwen"}) =>
            LET own == OwnKeyName(SelectedProvider)
            IN /\ th[t].service_class = SelectedProvider
               /\ th[t].keyReads = {own}
               /\ th[t].api_key = env[own]
               /\ (env[own] \in {"UNSET", ""}) => (th[t].err = "ValueError" /\ th[t].ret = 0)
               /\ (env[own] \notin {"UNSET", ""}) => (th[t].err \in {"none", "ConnectionError"})
               /\ (th[t].err = "none") =>
                     heap[th[t].ret] = Instance(SelectedProvider, env[own], "factory")

C19_Witness ==
    /\ GotInstance(1)
    /\ th[1].miss
    /\ env.LLM_PROVIDER = "OpenAI"
    /\ env.OPENAI_API_KEY = "sk-o"
    /\ env.GOOGLE_API_KEY = "sk-g"
    /\ heap[th[1].ret] = Instance("openai", "sk-o", "factory")

\* C20: a Google adapter construction whose genai.configure fails raises
\* ConnectionError; with a None or empty credential it raises ValueError and
\* configure is not invoked; a construction that raises yields no instance.
C20_GoogleConstruction ==
    \A t \in Threads :
        (th[t].pc = "done" /\ th[t].service_class = "google") =>
            /\ (th[t].api_key \in {"UNSET", ""}) =>
                  (th[t].err = "ValueError" /\ th[t].sdk = 0 /\ ~th[t].sdkFail)
            /\ th[t].sdkFail =>
                  (th[t].err = "ConnectionError" /\ th[t].api_key \notin {"UNSET", ""})
            /\ (th[t].err # "none") => (th[t].built = 0 /\ th[t].ret = 0)

C20_Witness ==
    /\ th[1].pc = "done"
    /\ th[1].kind = "direct"
    /\ th[1].service_class = "google"
    /\ th[1].api_key = "sk"
    /\ th[1].sdkFail
    /\ th[1].err = "ConnectionError"
    /\ heap = <<>>

\* ---------------------------------------------------------- request claims
\* the message that carries the translation instruction
InstructionMessage ==
    built.messages[IF req.adapter = "qwen" THEN 2 ELSE 1]

\* C21: for every adapter, the translation instruction names the detected
\* language exactly when source_language is "auto"; every other value
\* ("AUTO", "Auto", the empty string, ...) appears in it as the source language.
C21_OnlyAutoMeansDetect ==
    (built.kind = "request" /\ req.op = "translate") =>
        SubSeq(InstructionMessage.content, 2, 3) =
            IF req.source_language = "auto"
            THEN <<"from", "the detected language">>
            ELSE <<"from", req.source_language>>

\* C22: in the Qwen adapter, for every supported analysis_type and every
\* text, the last message sent has the user role and its content is the fixed
\* instruction of that analysis_type immediately followed by the whole text.
C22_QwenAnalysisLastMessage ==
    (req.adapter = "qwen" /\ req.op = "analyze_text"
        /\ req.analysis_type \in {"summary", "keywords"} /\ built # NoRequest) =>
        /\ built.kind = "request"
        /\ LET final == built.messages[Len(built.messages)]
           IN /\ final.role = "user"
              /\ Len(final.content) = 1 + Len(req.text)
              /\ final.content[1] =
                    (IF req.analysis_type = "summary"
                     THEN "Summarize the following text concisely: "
                     ELSE "Extract the main keywords from the following text, comma-separated: ")
              /\ SubSeq(final.content, 2, Len(final.content)) = req.text

C22_Witness ==
    /\ req.adapter = "qwen"
    /\ req.op = "analyze_text"
    /\ req.analysis_type = "keywords"
    /\ req.text = <<" ", "a", " ">>
    /\ built.kind = "request"
    /\ Len(built.messages) = 2
    /\ built.messages[2].content =
          <<"Extract the main keywords from the following text, comma-separated: ",
            " ", "a", " ">>

\* C23: for every adapter and operation, every vendor invocation of a call
\* names one and the same model: the caller's model preference when one is
\* given (a non-empty name), otherwise the provider's fixed default.
C23_EffectiveModelInEveryInvocation ==
    (op \in Operations) =>
        /\ sent_models \subseteq
              {IF model_preference \notin {"None", ""} THEN model_preference
               ELSE IF adapter = "openai" THEN "gpt-3.5-turbo"
               ELSE IF adapter = "google" THEN "gemini-1.5-flash-latest"
               ELSE "qwen-turbo"}
        /\ (calls > 0) => (Cardinality(sent_models) = 1)

C23_Witness ==
    /\ adapter = "qwen"
    /\ op = "translate"
    /\ model_preference = "my-model"
    /\ hist = <<"raise", "content">>
    /\ calls = 2
    /\ pc = "done"
    /\ sent_models = {"my-model"}

\* C24: in the OpenAI adapter, when the vendor call raises an APIError, each
\* of translate, analyze_text and generate_response raises the generic
\* Exception of _handle_api_error, whose message is the fixed prefix followed
\* by the text of the error of that (single) invocation; nothing is returned.
C24_OpenAIAPIErrorRaisesGeneric ==
    (adapter = "openai" /\ pc = "done" /\ last.kind = "apierror") =>
        /\ result.kind = "raise"
        /\ result.err.type = "Exception"
        /\ result.err.cause = calls
        /\ calls = 1
        /\ result.text = <<>>

C24_Witness ==
    /\ adapter = "openai"
    /\ op = "analyze_text"
    /\ analysis_type = "keywords"
    /\ pc = "done"
    /\ last.kind = "apierror"
    /\ hist = <<"apierror">>
    /\ result = Raised(Err("Exception", 0, 1))

\* ----------------------------------------------------------- legacy claims
\* C25: call_llm never raises: whatever happens it returns a string.  With
\* no initialized client it returns the 'client not initialized' string for
\* every task, and with an unrecognized task the 'task not recognized'
\* string, in both cases without a vendor invocation; a vendor APIError is
\* returned as an 'Error interacting with LLM' string after one invocation.
C25_LegacyNeverRaises ==
    (legacy.pc = "done") =>
        /\ legacy.result.kind = "string"
        /\ legacy.calls <= 1
        /\ (client = "None") =>
              /\ legacy.result.text =
                    <<"Error: OpenAI client not initialized. Is OPENAI_API_KEY set?">>
              /\ legacy.calls = 0
        /\ (client # "None"
                /\ legacy.task \notin {"translate", "search", "analyze_document"}) =>
              /\ legacy.result.text = <<"LLM task not recognized by the new service.">>
              /\ legacy.calls = 0
        /\ (legacy.last.kind = "apierror") =>
              /\ legacy.result.text[1] = "Error interacting with LLM: "
              /\ legacy.calls = 1

C25_Witness ==
    /\ legacy.pc = "done"
    /\ client = "client"
    /\ legacy.task = "search"
    /\ legacy.last.kind = "apierror"
    /\ legacy.calls = 1
    /\ legacy.result = Returned(<<"Error interacting with LLM: ", "error">>)

\* C26: retry state is per call: every call starts its wrapper with attempt
\* counter 0, no last exception and the full budget, however the previous
\* call on the same adapter ended (a call gives up with ConnectionError only
\* after max_retries + 1 invocations of its own), and no step of an adapter
\* call changes the factory's cache slot, the instances or their credentials.
C26_RetryStateIsPerCall ==
    [][/\ (pc = "start") => (attempts' = 0 /\ last_exception' = NoErr)
       /\ (pc' = "done" /\ result'.kind = "raise"
               /\ result'.err.type = "ConnectionError") =>
             (calls' >= max_retries' + 1)
       /\ slot' = slot
       /\ heap' = heap
       /\ env' = env]_vars

C26_Witness ==
    /\ prior = "raised"
    /\ adapter = "qwen"
    /\ op = "translate"
    /\ pc = "done"
    /\ hist = <<"raise", "content">>
    /\ attempts = 1
    /\ result.kind = "string"
    /\ slot = 1
    /\ heap = <<Instance("qwen", "sk-q", "factory")>>

\* C27: in the Qwen retry wrapper a non-200 status, a 200 response without
\* output or without choices, and a raised SDK exception are retried alike:
\* each consumes one attempt, none ends the loop early, and after
\* max_retries + 1 such failures in any mix the wrapper raises
\* ConnectionError, which embeds the failure of the last invocation.
C27_QwenFailuresRetriedAlike ==
    (adapter = "qwen" /\ hist # <<>>
        /\ \A i \in 1..Len(hist) :
              hist[i] \in {"raise", "non200", "nooutput", "nochoices"}) =>
        /\ calls = Len(hist)
        /\ attempts = calls
        /\ calls <= max_retries + 1
        /\ last_exception.cause = calls
        /\ last_exception.type = (IF last.kind = "raise" THEN "VendorError"
                                  ELSE "ValueError")
        /\ (calls <= max_retries) => (pc = "retry" /\ result = NoResult)
        /\ (calls = max_retries + 1) =>
              /\ pc = "done"
              /\ result = Raised(Err("ConnectionError", max_retries + 1, calls))

C27_Witness ==
    /\ adapter = "qwen"
    /\ max_retries = 2
    /\ hist = <<"non200", "nochoices", "raise">>
    /\ pc = "done"
    /\ result = Raised(Err("ConnectionError", 3, 3))
    /\ last_exception = Err("VendorError", 0, 3)

\* --------------------------------------------------------------- web claims
\* C28: in each web handler, an error raised by get_llm_service or by the
\* adapter operation is answered with HTTP 500, every answer is one of the
\* handler's own (200, 400, 500), and HTTP 200 is answered only when the
\* adapter operation returned a string.
C28_HandlerAnswersEveryError ==
    (web.pc = "responded") =>
        /\ web.status \in {200, 400, 500}
        /\ (web.got \notin {"NA", "none"} \/ web.opkind = "raise") => (web.status = 500)
        /\ (web.status = 200) =>
              (web.got = "none" /\ web.opkind \in {"string", "sentinel"})

C28_Witness ==
    /\ web.pc = "responded"
    /\ web.route = "/api/search"
    /\ web.got = "none"
    /\ web.opkind = "raise"
    /\ web.status = 500
    /\ slot # 0

\* --------------------------------------------- factory claims, failure paths
\* C29: a get_llm_service call that fails (unknown provider, missing
\* credential, constructor raising) leaves the slot empty and no instance
\* behind; the slot only ever holds a completely constructed instance; a call
\* made while the slot is empty validates the configuration anew, and
\* succeeds when the configuration is valid and the constructor does not fail.
C29_FailedCallCachesNothing ==
    /\ (th[1].kind = "get" /\ th[1].pc = "done" /\ th[1].err # "none") =>
          /\ slot = 0
          /\ heap = <<>>
          /\ th[1].miss
          /\ th[1].ret = 0
    /\ (slot # 0) =>
          /\ heap[slot].by = "factory"
          /\ heap[slot].api_key \notin {"UNSET", ""}
          /\ heap[slot].cls \in {"openai", "google", "qwen"}
    /\ (th[1].pc = "cached") => (slot # 0)
    /\ (EndedOnMiss(1) /\ SelectedProvider \in {"openai", "google", "qwen"}
            /\ env[OwnKeyName(SelectedProvider)] \notin {"UNSET", ""}
            /\ ~th[1].sdkFail) =>
          /\ th[1].err = "none"
          /\ th[1].ret = slot
          /\ heap[slot] = Instance(SelectedProvider,
                                   env[OwnKeyName(SelectedProvider)], "factory")

\* the second call succeeds after the first one failed (the first call did
\* not populate the slot, or the second would not have found it empty)
C29_Witness ==
    /\ ops = 2
    /\ envChanges = 1
    /\ GotInstance(1)
    /\ th[1].miss
    /\ th[1].ret = slot
    /\ slot = 1
    /\ Len(heap) = 1

NoMissInFlight == \A t \in Threads : th[t].pc \notin {"resolve", "construct", "store"}

\* C30: get_llm_service never empties a populated slot; the slot is
\* non-empty once any call has returned an instance; and once the slot is
\* populated and no call that found it empty is still under way, the slot no
\* longer changes, no call finds it empty again and every call that ends
\* returns the instance in it.
C30_CacheStabilises ==
    [][/\ (slot # 0) => (slot' # 0)
       /\ (\E t \in Threads : GotInstance(t)) => (slot # 0)
       /\ (NoMissInFlight /\ slot # 0) =>
             /\ slot' = slot
             /\ NoMissInFlight'
             /\ \A t \in Threads :
                   (th[t].pc # "done" /\ th'[t].pc = "done") =>
                       (th'[t].err = "none" /\ th'[t].ret = slot)]_vars

C30_Witness ==
    /\ ops = 3
    /\ Cardinality(FactoryBuilt) = 2
    /\ NoMissInFlight
    /\ GotInstance(1)
    /\ ~th[1].miss
    /\ th[1].ret = slot
    /\ GotInstance(2)
    /\ th[2].miss
    /\ slot # 0
====
